---------------------------- MODULE Spec2Model ----------------------------
(***************************************************************************)
(* grpc-web-client: the call dispatch of Client (Client::request, driven    *)
(* through GrpcService::call) and the streaming body bridge                 *)
(* (ReadableStreamBody), built with the web-worker request module.          *)
(*                                                                          *)
(* Strings that the code only passes along are TLA+ strings.  A header      *)
(* value is a sequence of tokens, each token a run of bytes of one class    *)
(* (text, HTTP whitespace, bytes >= 0x80, line breaks), so that validation  *)
(* and the host's normalisation act on its content.  A byte chunk is a      *)
(* sequence of byte values.                                                 *)
(*                                                                          *)
(* Spec follows one dispatch and the body of its response in full.          *)
(* SpecShared follows several dispatches in flight at once, made through a  *)
(* handle and its clone while the caller replaces either, with the same     *)
(* operators for each step.                                                 *)
(***************************************************************************)
EXTENDS Naturals, Sequences, FiniteSets, TLC

(***************************************************************************)
(* Bounds of the model.                                                     *)
(***************************************************************************)
MaxReqHeaders == 2
MaxRespHeaders == 2
MaxChunks == 2
MaxExtraPulls == 1
MaxFlights == 2

(***************************************************************************)
(* ClientError (lib.rs 35-64).                                              *)
(***************************************************************************)
Other(msg) == [tag |-> "Other", val |-> msg]

FetchFailed(js) == [tag |-> "FetchFailed", val |-> js]

From_ToStrError == Other("Header value contained invalid ASCII")

From_InvalidHeaderName == Other("Header name was invalid")

From_InvalidHeaderValue == Other("Header value was invalid")

From_JsValue(js) == FetchFailed(js)

(***************************************************************************)
(* Results.                                                                 *)
(***************************************************************************)
RErr(e) == [ok |-> FALSE, err |-> e]

ROk(v) == [val |-> v, ok |-> TRUE]

(***************************************************************************)
(* Adapter configuration (lib.rs 73-93) and the encoding's content type     *)
(* (call.rs, not among the sources).                                        *)
(***************************************************************************)
CredentialsMode == {"omit", "same-origin", "include"}

RequestMode == {"same-origin", "no-cors", "cors", "navigate"}

Encoding == {"None", "Base64"}

BaseUris == {"https://api.example.com"}

Client == [base_uri : BaseUris, credentials : CredentialsMode,
           mode : RequestMode, encoding : Encoding]

Configs ==
  {c \in Client :
     \/ c.credentials = "same-origin" /\ c.mode = "cors"
     \/ c.credentials = "include" /\ c.mode = "no-cors" /\ c.encoding = "Base64"}

Client_new(base_uri) ==
  [base_uri |-> base_uri, credentials |-> "same-origin",
   mode |-> "cors", encoding |-> "None"]

to_content_type(enc) ==
  IF enc = "Base64" THEN <<"application/grpc-web-text+proto">>
                    ELSE <<"application/grpc-web+proto">>

(***************************************************************************)
(* Header values.  http::HeaderValue holds visible ASCII, space, tab and    *)
(* bytes >= 0x80; HeaderValue::to_str accepts visible ASCII, space and tab  *)
(* only.                                                                    *)
(***************************************************************************)
WsTokens == {" "}

ObsTokens == {"0xE9"}

BreakTokens == {"0x0A"}

IsVisibleAscii(t) == t \notin WsTokens \cup ObsTokens \cup BreakTokens

(* Variant: a lossy conversion that never fails. *)
to_str_lossy(v) == ROk(v)

to_str(v) ==
  IF \A i \in 1..Len(v) : IsVisibleAscii(v[i]) \/ v[i] \in WsTokens
    THEN ROk(v) ELSE RErr(From_ToStrError)

(***************************************************************************)
(* The host's Headers object: a map from lower-cased name to value.         *)
(* Headers.set normalises the value (strips leading and trailing HTTP       *)
(* whitespace), throws a TypeError for a name that is no token or a value   *)
(* holding a line break, and otherwise replaces the entry of that name.     *)
(***************************************************************************)
HostLower(n) ==
  CASE n = "Content-Type" -> "content-type"
    [] n = "Grpc-Status" -> "grpc-status"
    [] OTHER -> n

(* A name that http::HeaderName holds.  The crate validates names by its    *)
(* own table of bytes, which admits the double quote (byte 0x22) beside     *)
(* the token characters; "x-0x22" stands for a name holding that byte.      *)
IsHeaderName(n) == n \notin {"", "bad name"}

(* A name the host takes: an HTTP token, which the double quote is not.     *)
IsToken(n) == n \notin {"", "bad name", "x-0x22"}

RECURSIVE TrimLeft(_)
TrimLeft(v) ==
  IF v # <<>> /\ Head(v) \in WsTokens THEN TrimLeft(Tail(v)) ELSE v

RECURSIVE TrimRight(_)
TrimRight(v) ==
  IF v # <<>> /\ v[Len(v)] \in WsTokens
    THEN TrimRight(SubSeq(v, 1, Len(v) - 1)) ELSE v

Normalize(v) == TrimRight(TrimLeft(v))

Headers_new == << >>

(* Variant: an entry already present is kept. *)
HeadersSetFirstWins(h, name, value) ==
  IF ~IsToken(name) \/ \E i \in 1..Len(value) : value[i] \in BreakTokens
    THEN RErr("TypeError")
    ELSE ROk(h @@ (HostLower(name) :> Normalize(value)))

Headers_set(h, name, value) ==
  IF ~IsToken(name) \/ \E i \in 1..Len(value) : value[i] \in BreakTokens
    THEN RErr("TypeError")
    ELSE ROk((HostLower(name) :> Normalize(value)) @@ h)

(***************************************************************************)
(* Outbound header construction (lib.rs 99-106).  The caller's headers are  *)
(* copied in iteration order, then the two mandated headers are set.        *)
(* Headers::new fails when the host cannot construct the container.         *)
(***************************************************************************)
UserAgent == <<"grpc-web-rust/0.1">>

RECURSIVE CopyHeaders(_, _)
CopyHeaders(h, kvs) ==
  IF kvs = <<>> THEN ROk(h)
  ELSE LET s == to_str(Head(kvs)[2]) IN
       IF ~s.ok THEN RErr(s.err)
       ELSE LET r == Headers_set(h, Head(kvs)[1], s.val) IN
            IF ~r.ok THEN RErr(From_JsValue(r.err))
            ELSE CopyHeaders(r.val, Tail(kvs))

SetMandated(h, enc) ==
  LET a == Headers_set(h, "x-user-agent", UserAgent) IN
  IF ~a.ok THEN RErr(From_JsValue(a.err))
  ELSE LET b == Headers_set(a.val, "content-type", to_content_type(enc)) IN
       IF ~b.ok THEN RErr(From_JsValue(b.err)) ELSE ROk(b.val)

OutboundHeaders(newOk, kvs, enc) ==
  IF ~newOk THEN RErr(Other("Failed to create headers"))
  ELSE LET c == CopyHeaders(Headers_new, kvs) IN
       IF ~c.ok THEN c ELSE SetMandated(c.val, enc)


(***************************************************************************)
(* The request init and the host request (worker/mod.rs 17-22,              *)
(* lib.rs 112-118).                                                         *)
(***************************************************************************)
RequestInit_new ==
  [credentials |-> "unset",
   mode |-> "unset",
   method |-> "unset",
   body |-> <<>>,
   headers |-> << >>]

post_init(c) == [RequestInit_new EXCEPT !.method = "POST"]

ToUint8Array(bytes) == [i \in 1..Len(bytes) |-> bytes[i]]

BuildInit(c, bytes, h) ==
  [post_init(c) EXCEPT !.body = ToUint8Array(bytes), !.headers = h]

Request_new(url, init) == [url |-> url, init |-> init]

NoRequest == Request_new("-", RequestInit_new)

(***************************************************************************)
(* Values of the host.                                                      *)
(***************************************************************************)
HostErrors == {"TypeError: Failed to fetch", "AbortError"}

JsString(s) == [js |-> "string", str |-> s]

JsUndefined == [js |-> "undefined"]

as_string(v) == IF v.js = "string" THEN ROk(v.str) ELSE RErr("None")

(***************************************************************************)
(* Response construction (lib.rs 121-159).                                  *)
(***************************************************************************)
(* Variant: the status number is not validated. *)
ValidStatusLax(n) == n < 1000

ValidStatus(n) == n >= 100 /\ n < 1000

HeaderName_from_bytes(n) ==
  IF IsHeaderName(n) THEN ROk(HostLower(n)) ELSE RErr(From_InvalidHeaderName)

HeaderValue_from_str(v) ==
  IF \A i \in 1..Len(v) : IsVisibleAscii(v[i]) \/ v[i] \in WsTokens
    THEN ROk(v) ELSE RErr(From_InvalidHeaderValue)

(* Variant: entries with a missing name or value are skipped. *)
RECURSIVE AppendHeadersSkipping(_, _)
AppendHeadersSkipping(map, entries) ==
  IF entries = <<>> THEN ROk(map)
  ELSE LET kv == Head(entries) IN
       IF kv.throws THEN RErr(From_JsValue(kv.err))
       ELSE IF kv.name.js # "string" \/ kv.value.js # "string"
         THEN AppendHeadersSkipping(map, Tail(entries))
       ELSE LET hn == HeaderName_from_bytes(kv.name.str)
                hv == HeaderValue_from_str(kv.value.str) IN
            IF ~hn.ok THEN RErr(hn.err)
            ELSE IF ~hv.ok THEN RErr(hv.err)
            ELSE AppendHeadersSkipping(Append(map, <<hn.val, hv.val>>),
                                       Tail(entries))

RECURSIVE AppendHeaders(_, _)
AppendHeaders(map, entries) ==
  IF entries = <<>> THEN ROk(map)
  ELSE LET kv == Head(entries) IN
       IF kv.throws THEN RErr(From_JsValue(kv.err))
       ELSE LET n == as_string(kv.name) IN
            IF ~n.ok THEN RErr(Other("Header pair had no name"))
            ELSE LET hn == HeaderName_from_bytes(n.val) IN
                 IF ~hn.ok THEN RErr(hn.err)
                 ELSE LET v == as_string(kv.value) IN
                      IF ~v.ok THEN RErr(Other("Header pair had no value"))
                      ELSE LET hv == HeaderValue_from_str(v.val) IN
                           IF ~hv.ok THEN RErr(hv.err)
                           ELSE AppendHeaders(Append(map, <<hn.val, hv.val>>),
                                              Tail(entries))

from_content_type(map) ==
  LET idx == {i \in 1..Len(map) : map[i][1] = "content-type"} IN
  IF idx = {} THEN "None"
  ELSE LET v == map[CHOOSE i \in idx : \A j \in idx : i <= j][2] IN
       IF v \in {<<"application/grpc-web-text+proto">>,
                 <<"application/grpc-web-text">>}
         THEN "Base64" ELSE "None"

(* Variant: a missing body stream is not checked. *)
BuildResponseDefaultBody(r) ==
  IF ~ValidStatus(r.status)
    THEN RErr(Other("Could not get response headers"))
  ELSE IF r.iter = "throw" THEN RErr(From_JsValue(r.iterErr))
  ELSE IF r.iter = "none"
    THEN RErr(Other("Response headers iterator was empty"))
  ELSE LET hs == AppendHeaders(<<>>, r.headers) IN
       IF ~hs.ok THEN hs
       ELSE ROk([encoding |-> from_content_type(hs.val),
                 body |-> "ReadableStreamBody",
                 headers |-> hs.val,
                 status |-> r.status])

(* Variant: the body stream is looked for before the headers are copied. *)
BuildResponseBodyFirst(r) ==
  IF ~ValidStatus(r.status)
    THEN RErr(Other("Could not get response headers"))
  ELSE IF ~r.hasBody THEN RErr(Other("Response body was empty"))
  ELSE IF r.iter = "throw" THEN RErr(From_JsValue(r.iterErr))
  ELSE IF r.iter = "none"
    THEN RErr(Other("Response headers iterator was empty"))
  ELSE LET hs == AppendHeaders(<<>>, r.headers) IN
       IF ~hs.ok THEN hs
       ELSE ROk([encoding |-> from_content_type(hs.val),
                 body |-> "ReadableStreamBody",
                 headers |-> hs.val,
                 status |-> r.status])

BuildResponse(r) ==
  IF ~ValidStatus(r.status)
    THEN RErr(Other("Could not get response headers"))
  ELSE IF r.iter = "throw" THEN RErr(From_JsValue(r.iterErr))
  ELSE IF r.iter = "none"
    THEN RErr(Other("Response headers iterator was empty"))
  ELSE LET hs == AppendHeaders(<<>>, r.headers) IN
       IF ~hs.ok THEN hs
       ELSE IF ~r.hasBody THEN RErr(Other("Response body was empty"))
       ELSE ROk([encoding |-> from_content_type(hs.val),
                 body |-> "ReadableStreamBody",
                 headers |-> hs.val,
                 status |-> r.status])

(***************************************************************************)
(* fetch_with_request (worker/mod.rs 7-15): a rejection and a resolution    *)
(* with a value that is no Response both become FetchFailed.                *)
(***************************************************************************)
(* Variant: a rejection is reported by a synthesised message. *)
fetch_with_request_synth(res) ==
  IF res.kind = "reject" THEN RErr(Other("fetch failed"))
  ELSE IF res.kind = "value" THEN RErr(FetchFailed(res.val))
  ELSE ROk(res.resp)

fetch_with_request(res) ==
  IF res.kind = "reject" THEN RErr(FetchFailed(res.val))
  ELSE IF res.kind = "value" THEN RErr(FetchFailed(res.val))
  ELSE ROk(res.resp)


(***************************************************************************)
(* The streaming body bridge (lib.rs 177-221).  into_stream holds a reader  *)
(* of the host stream and at most one outstanding read; it releases the     *)
(* reader when a read reports the end or fails.                             *)
(***************************************************************************)
Chunks == {<<1>>, <<2, 3>>}

(* Variant: the buffer is allocated but not copied into. *)
CopyZeroed(chunk) == [i \in 1..Len(chunk) |-> 0]

CopyToBytes(chunk) == [i \in 1..Len(chunk) |-> chunk[i]]

Status_unknown(msg) == [code |-> "Unknown", message |-> msg]

ItemOk(bytes) == [tag |-> "Ok", bytes |-> bytes, status |-> Status_unknown("")]

ItemErr(st) == [tag |-> "Err", bytes |-> <<>>, status |-> st]

ItemNone == [tag |-> "None", bytes |-> <<>>, status |-> Status_unknown("")]

map_ok(chunk) == ItemOk(CopyToBytes(chunk))

(* Variant: the host error is carried in the status. *)
map_err_passthrough(e) == ItemErr(Status_unknown(e))

map_err(e) == ItemErr(Status_unknown("readablestream error"))

ReadChunk(c) == [err |-> "", kind |-> "chunk", chunk |-> c]

ReadDone == [err |-> "", kind |-> "done", chunk |-> <<>>]

ReadError(e) == [err |-> e, kind |-> "error", chunk |-> <<>>]

poll_trailers == "Ready(Ok(None))"

is_end_stream == FALSE

poll_ready == "Ready(Ok(()))"

(***************************************************************************)
(* Inputs.                                                                  *)
(***************************************************************************)
RpcPaths == {"/pkg.Service/Method"}

RpcNames == {"te", "x-user-agent", "content-type", "x-0x22"}

RpcValues == {<<"trailers">>, <<"a">>, <<" ", "a">>, <<"0xE9">>}

RECURSIVE SeqsUpTo(_, _)
SeqsUpTo(S, n) ==
  IF n = 0 THEN {<<>>}
  ELSE LET shorter == SeqsUpTo(S, n - 1) IN
       shorter \cup {Append(q, x) : q \in shorter, x \in S}

(* The pairs a header mapping is made of: every value under an ordinary     *)
(* name, and one value under each of the other names.                       *)
RpcPairs ==
  {kv \in RpcNames \X RpcValues : kv[1] = "te" \/ kv[2] = <<"trailers">>}

RpcHeaders == SeqsUpTo(RpcPairs, MaxReqHeaders)

RpcBodies == {<<>>, <<0, 7>>}

NoRpc == [headers |-> <<>>, uri |-> "-"]

Pair(n, v) == [err |-> "", name |-> n, value |-> v, throws |-> FALSE]

Throwing(e) == [err |-> e,
                name |-> JsUndefined,
                value |-> JsUndefined,
                throws |-> TRUE]

RespEntries ==
  { Pair(JsString("grpc-status"), JsString(<<"0">>)),
    Pair(JsString("Content-Type"),
         JsString(<<"application/grpc-web-text+proto">>)),
    Pair(JsUndefined, JsString(<<"0">>)),
    Pair(JsString("x-note"), JsUndefined),
    Pair(JsUndefined, JsUndefined),
    Pair(JsString("bad name"), JsUndefined),
    Pair(JsString("x-note"), JsString(<<"0xE9">>)),
    Throwing("TypeError: next") }

Statuses == {0, 200}

HostResponse(st, it, e, hs, b) ==
  [headers |-> hs, status |-> st, iter |-> it, iterErr |-> e, hasBody |-> b]

HostResponses ==
  {HostResponse(st, "ok", "", hs, b) :
     st \in Statuses, hs \in SeqsUpTo(RespEntries, MaxRespHeaders),
     b \in BOOLEAN}
  \cup {HostResponse(st, "none", "", <<>>, b) : st \in Statuses, b \in BOOLEAN}
  \cup {HostResponse(st, "throw", "TypeError: iterator", <<>>, b) :
          st \in Statuses, b \in BOOLEAN}

NoResponse == HostResponse(0, "-", "", <<>>, FALSE)

FetchResults ==
  {[val |-> e, kind |-> "reject", resp |-> NoResponse] : e \in HostErrors}
  \cup {[val |-> "not a Response", kind |-> "value", resp |-> NoResponse]}
  \cup {[val |-> "", kind |-> "response", resp |-> r] : r \in HostResponses}

NoClient == [base_uri |-> "-", credentials |-> "-", mode |-> "-",
             encoding |-> "-"]

NoOutcome == [tag |-> "None"]

OutcomeOf(r) ==
  IF r.ok THEN [tag |-> "Ok", resp |-> r.val] ELSE [tag |-> "Err", err |-> r.err]

FlightIds == 1..MaxFlights

IdleFlight ==
  [headers |-> Headers_new, uri |-> "", pc |-> "idle", self |-> NoClient,
   called |-> NoClient, rpc |-> NoRpc, hostReq |-> NoRequest,
   outcome |-> NoOutcome]

NoEvent == [op |-> "-", slot |-> 0, at |-> "-", inFlight |-> 0]

NoQuery == [val |-> FALSE, asked |-> FALSE, ended |-> FALSE]

NoHostLog ==
  [body |-> "-", headersNew |-> "-", requestNew |-> "-",
   fetch |-> [val |-> "", kind |-> "-", resp |-> NoResponse]]

(***************************************************************************)
(* State.  The configuration of the handle is any value of the Client      *)
(* struct in Configs; Client::new yields the first of them.                 *)
(***************************************************************************)
VARIABLES
  client,      \* the configuration of the Client handle
  pc,          \* position of the dispatch: idle, start, body, fetch, done
  self,        \* the clone of the configuration the future owns
  rpc,         \* the request given to call, until its body is taken
  callerHeaders, \* the (name, value) pairs of that request, while in flight
  uri,         \* the target address
  headers,     \* the host header container
  hostReq,     \* the request handed to the host fetch, while in flight
  fetchCount,  \* host fetches issued by the current dispatch
  hostLog,     \* what the host answered at each host call of the dispatch
  outcome,     \* the result of the future
  reader,      \* into_stream's reader: none, locked, released
  fut,         \* the outstanding read: none, pending, settled
  futVal,      \* the value the outstanding read settled with
  delivered,   \* chunks the host stream has delivered
  hostEnd,     \* the host stream: open, closed, errored
  hostErr,     \* the error the host stream failed with
  yielded,     \* the items poll_data has returned, in order
  trailers,    \* the last result of poll_trailers
  endStream,   \* the last result of is_end_stream, and whether the body
               \* had ended when it was asked
  ready,       \* the last result of poll_ready
  clone,       \* a second handle, cloned from the first
  flights,     \* the dispatches of a caller that keeps several in flight
  last         \* the caller's last probe, or abandonment of a suspended
               \* dispatch

dispatchVars == <<pc, self, rpc, callerHeaders, uri, headers, hostReq, fetchCount, hostLog,
                  outcome>>

streamVars == <<reader, fut, futVal, delivered, hostEnd, hostErr, yielded,
                trailers, endStream>>

multiVars == <<clone, flights, last>>

vars == <<client, dispatchVars, streamVars, ready, multiVars>>

NoStream ==
  /\ reader' = "none"
  /\ fut' = "none"
  /\ futVal' = ReadDone
  /\ delivered' = <<>>
  /\ hostEnd' = "open"
  /\ hostErr' = ""
  /\ yielded' = <<>>
  /\ trailers' = "-"
  /\ endStream' = NoQuery

Init ==
  /\ client \in Configs
  /\ pc = "idle"
  /\ self = NoClient
  /\ rpc = NoRpc
  /\ callerHeaders = {}
  /\ uri = ""
  /\ headers = Headers_new
  /\ hostReq = NoRequest
  /\ fetchCount = 0
  /\ hostLog = NoHostLog
  /\ outcome = NoOutcome
  /\ reader = "none"
  /\ fut = "none"
  /\ futVal = ReadDone
  /\ delivered = <<>>
  /\ hostEnd = "open"
  /\ hostErr = ""
  /\ yielded = <<>>
  /\ trailers = "-"
  /\ endStream = NoQuery
  /\ ready = "-"
  /\ clone = NoClient
  /\ flights = [i \in FlightIds |-> IdleFlight]
  /\ last = NoEvent


(***************************************************************************)
(* GrpcService (lib.rs 163-175).  call clones the configuration and boxes   *)
(* the future of request; nothing of request runs before the first poll.    *)
(***************************************************************************)
PollReady ==
  /\ ready' = poll_ready
  /\ UNCHANGED <<client, multiVars, dispatchVars, streamVars>>

Call(r) ==
  /\ pc = "idle"
  /\ pc' = "start"
  /\ self' = client
  /\ rpc' = r
  /\ callerHeaders' = {r.headers[i] : i \in 1..Len(r.headers)}
  /\ UNCHANGED <<client, multiVars,
                 uri, headers, hostReq, fetchCount, hostLog, outcome,
                 streamVars, ready>>

(***************************************************************************)
(* The caller drops the future, or the response it resolved to: everything  *)
(* the dispatch owned is gone, the handle remains.                          *)
(***************************************************************************)
Drop ==
  /\ pc # "idle"
  /\ pc' = "idle"
  /\ self' = NoClient
  /\ rpc' = NoRpc
  /\ callerHeaders' = {}
  /\ uri' = ""
  /\ headers' = Headers_new
  /\ hostReq' = NoRequest
  /\ fetchCount' = 0
  /\ hostLog' = NoHostLog
  /\ outcome' = NoOutcome
  /\ NoStream
  /\ UNCHANGED <<client, multiVars, ready>>

Finish(res) ==
  /\ pc' = "done"
  /\ outcome' = OutcomeOf(res)

(***************************************************************************)
(* Client::request up to the first suspension (lib.rs 96-109): the target   *)
(* address and the outbound headers.                                        *)
(***************************************************************************)
(* Variant: the base address is put after the path. *)
TargetUriAppended(base, path) == path \o base

TargetUri(base, path) == base \o path

Start(newOk) ==
  /\ pc = "start"
  /\ LET h == OutboundHeaders(newOk, rpc.headers, self.encoding) IN
     /\ uri' = TargetUri(self.base_uri, rpc.uri)
     /\ hostLog' = [hostLog EXCEPT !.headersNew = IF newOk THEN "ok" ELSE "throw"]
     /\ IF h.ok
          THEN /\ headers' = h.val
               /\ rpc' = NoRpc
               /\ pc' = "body"
               /\ UNCHANGED outcome
          ELSE /\ Finish(h)
               /\ UNCHANGED <<headers, rpc>>
  /\ UNCHANGED <<client, multiVars,
                 self, callerHeaders, hostReq, fetchCount, streamVars,
                 ready>>

(***************************************************************************)
(* From the materialised body to the host fetch (lib.rs 108-119).           *)
(***************************************************************************)
BodyFailed ==
  /\ pc = "body"
  /\ hostLog' = [hostLog EXCEPT !.body = "err"]
  /\ Finish(RErr(Other("Failed to convert RPC body to bytes")))
  /\ UNCHANGED <<client, multiVars,
                 self, rpc, callerHeaders, uri, headers, hostReq,
                 fetchCount, streamVars, ready>>

RequestFailed(bytes, e) ==
  /\ pc = "body"
  /\ hostLog' = [hostLog EXCEPT !.body = "ok", !.requestNew = "throw"]
  /\ self' = NoClient
  /\ Finish(RErr(From_JsValue(e)))
  /\ UNCHANGED <<client, multiVars, rpc, callerHeaders, uri, headers, hostReq,
                 fetchCount, streamVars, ready>>

IssueFetch(bytes) ==
  /\ pc = "body"
  /\ hostLog' = [hostLog EXCEPT !.body = "ok", !.requestNew = "ok"]
  /\ hostReq' = Request_new(uri, BuildInit(self, bytes, headers))
  /\ self' = NoClient
  /\ fetchCount' = fetchCount + 1
  /\ pc' = "fetch"
  /\ UNCHANGED <<client, multiVars, rpc, callerHeaders, uri, headers, outcome,
                 streamVars, ready>>

(***************************************************************************)
(* The fetch settles (lib.rs 119-159): the host request is gone, the        *)
(* response is built, and on success the body bridge holds a reader of the  *)
(* host stream.                                                             *)
(***************************************************************************)
(* Variant: a failed fetch or response is tried again. *)
FetchSettlesRetrying(res) ==
  /\ pc = "fetch"
  /\ hostLog' = [hostLog EXCEPT !.fetch = res]
  /\ LET f == fetch_with_request(res)
         out == IF f.ok THEN BuildResponse(f.val) ELSE f IN
     IF out.ok
       THEN /\ Finish(out)
            /\ reader' = "locked"
            /\ self' = self
       ELSE /\ pc' = "body"
            /\ self' = client
            /\ UNCHANGED <<outcome, reader>>
  /\ callerHeaders' = {}
  /\ hostReq' = NoRequest
  /\ UNCHANGED <<client, multiVars,
                 rpc, uri, headers, fetchCount, fut, futVal, delivered,
                 hostEnd, hostErr, yielded, trailers, endStream, ready>>

FetchSettles(res) ==
  /\ pc = "fetch"
  /\ hostLog' = [hostLog EXCEPT !.fetch = res]
  /\ LET f == fetch_with_request(res)
         out == IF f.ok THEN BuildResponse(f.val) ELSE f IN
     /\ Finish(out)
     /\ reader' = IF out.ok THEN "locked" ELSE "none"
  /\ callerHeaders' = {}
  /\ hostReq' = NoRequest
  /\ uri' = ""
  /\ headers' = Headers_new
  /\ UNCHANGED <<client, multiVars,
                 self, rpc, fetchCount, fut, futVal, delivered, hostEnd,
                 hostErr, yielded, trailers, endStream, ready>>

(***************************************************************************)
(* The host stream settles the outstanding read.                            *)
(***************************************************************************)
HostDelivers(c) ==
  /\ fut = "pending" /\ hostEnd = "open"
  /\ Len(delivered) < MaxChunks
  /\ delivered' = Append(delivered, c)
  /\ futVal' = ReadChunk(c)
  /\ fut' = "settled"
  /\ UNCHANGED <<client, multiVars,
                 dispatchVars, reader, hostEnd, hostErr, yielded,
                 trailers, endStream, ready>>

HostCloses ==
  /\ fut = "pending" /\ hostEnd = "open"
  /\ hostEnd' = "closed"
  /\ futVal' = ReadDone
  /\ fut' = "settled"
  /\ UNCHANGED <<client, multiVars,
                 dispatchVars, reader, delivered, hostErr, yielded,
                 trailers, endStream, ready>>

HostFails(e) ==
  /\ fut = "pending" /\ hostEnd = "open"
  /\ hostEnd' = "errored"
  /\ hostErr' = e
  /\ futVal' = ReadError(e)
  /\ fut' = "settled"
  /\ UNCHANGED <<client, multiVars,
                 dispatchVars, reader, delivered, yielded, trailers,
                 endStream,
                 ready>>

(***************************************************************************)
(* Body::poll_data (lib.rs 204-209) over into_stream().map_ok().map_err()   *)
(* (lib.rs 184-195).                                                        *)
(***************************************************************************)
MaxPulls == MaxChunks + 1 + MaxExtraPulls

PollDataStartsRead ==
  /\ outcome.tag = "Ok"
  /\ reader = "locked" /\ fut = "none"
  /\ fut' = "pending"
  /\ UNCHANGED <<client, multiVars,
                 dispatchVars, reader, futVal, delivered, hostEnd,
                 hostErr, yielded, trailers, endStream, ready>>

NextItem(v) ==
  CASE v.kind = "chunk" -> map_ok(v.chunk)
    [] v.kind = "done" -> ItemNone
    [] v.kind = "error" -> map_err(v.err)

ReaderAfter(v) == IF v.kind = "chunk" THEN "locked" ELSE "released"

PollDataReady ==
  /\ outcome.tag = "Ok"
  /\ fut = "settled"
  /\ Len(yielded) < MaxPulls
  /\ fut' = "none"
  /\ reader' = ReaderAfter(futVal)
  /\ yielded' = Append(yielded, NextItem(futVal))
  /\ UNCHANGED <<client, multiVars,
                 dispatchVars, futVal, delivered, hostEnd, hostErr,
                 trailers, endStream, ready>>

(* Variant: an empty chunk instead of the end. *)
EndedItemEmptyChunk == ItemOk(<<>>)

EndedItem == ItemNone

PollDataEnded ==
  /\ outcome.tag = "Ok"
  /\ reader = "released" /\ fut = "none"
  /\ Len(yielded) < MaxPulls
  /\ yielded' = Append(yielded, EndedItem)
  /\ UNCHANGED <<client, multiVars,
                 dispatchVars, reader, fut, futVal, delivered,
                 hostEnd, hostErr, trailers, endStream, ready>>

PollTrailers ==
  /\ outcome.tag = "Ok"
  /\ trailers' = poll_trailers
  /\ UNCHANGED <<client, multiVars,
                 dispatchVars, reader, fut, futVal, delivered,
                 hostEnd, hostErr, yielded, endStream, ready>>

(***************************************************************************)
(* Body::is_end_stream (lib.rs 218-220), asked of the body of an Ok         *)
(* response at any time.                                                    *)
(***************************************************************************)
Ended == yielded # <<>> /\ yielded[Len(yielded)].tag # "Ok"

(* Variant: the end is reported once the stream has ended. *)
IsEndStreamTracking ==
  /\ outcome.tag = "Ok"
  /\ endStream' = [val |-> Ended, asked |-> TRUE, ended |-> Ended]
  /\ UNCHANGED <<client, multiVars,
                 dispatchVars, reader, fut, futVal, delivered,
                 hostEnd, hostErr, yielded, trailers, ready>>

IsEndStream ==
  /\ outcome.tag = "Ok"
  /\ endStream' = [val |-> is_end_stream, asked |-> TRUE, ended |-> Ended]
  /\ UNCHANGED <<client, multiVars,
                 dispatchVars, reader, fut, futVal, delivered,
                 hostEnd, hostErr, yielded, trailers, ready>>

Next ==
  \/ PollReady
  \/ \E p \in RpcPaths, hs \in RpcHeaders : Call([headers |-> hs, uri |-> p])
  \/ Drop
  \/ \E newOk \in BOOLEAN : Start(newOk)
  \/ BodyFailed
  \/ \E bytes \in RpcBodies, e \in HostErrors : RequestFailed(bytes, e)
  \/ \E bytes \in RpcBodies : IssueFetch(bytes)
  \/ \E res \in FetchResults : FetchSettles(res)
  \/ \E c \in Chunks : HostDelivers(c)
  \/ HostCloses
  \/ \E e \in HostErrors : HostFails(e)
  \/ PollDataStartsRead
  \/ PollDataReady
  \/ PollDataEnded
  \/ PollTrailers
  \/ IsEndStream

Spec == Init /\ [][Next]_vars


(***************************************************************************)
(* Several dispatches in flight.  The caller owns the handle and may clone  *)
(* it (Client derives Clone, lib.rs 77), may replace either handle by       *)
(* another Client value, and calls through either; the future of a call     *)
(* owns the clone that call made (lib.rs 173).  The futures are polled in   *)
(* any order, each running from one suspension point to the next.           *)
(***************************************************************************)
HandleIds == {"original", "clone"}

OtherConfig ==
  [base_uri |-> "https://b.example.org/", credentials |-> "include",
   mode |-> "no-cors", encoding |-> "Base64"]

SharedConfigs == {Client_new("https://api.example.com"), OtherConfig}

SharedBodies == {<<0, 7>>}

SharedFetchResults ==
  {res \in FetchResults :
     \/ res.kind = "reject" /\ res.val = "AbortError"
     \/ res.kind = "response" /\ ValidStatus(res.resp.status)
          /\ res.resp.iter = "ok" /\ res.resp.headers = <<>>
          /\ res.resp.hasBody}

HandleOf(h) == IF h = "original" THEN client ELSE clone

InFlight ==
  Cardinality({i \in FlightIds : flights[i].pc \in {"start", "body", "fetch"}})

Finished(res) ==
  [IdleFlight EXCEPT !.pc = "done", !.outcome = OutcomeOf(res)]

CloneHandle ==
  /\ clone' = client
  /\ UNCHANGED <<client, dispatchVars, streamVars, ready, flights, last>>

ReplaceHandle(h, c) ==
  /\ HandleOf(h) \notin {NoClient, c}
  /\ IF h = "original"
       THEN client' = c /\ UNCHANGED clone
       ELSE clone' = c /\ UNCHANGED client
  /\ UNCHANGED <<dispatchVars, streamVars, ready, flights, last>>

(* Variant: not ready while a dispatch is in flight. *)
PollReadyOnBusy(h) ==
  /\ HandleOf(h) # NoClient
  /\ ready' = IF InFlight > 0 THEN "Pending" ELSE poll_ready
  /\ last' = [op |-> "poll_ready", slot |-> 0, at |-> "-",
              inFlight |-> InFlight]
  /\ UNCHANGED <<client, dispatchVars, streamVars, clone, flights>>

PollReadyOn(h) ==
  /\ HandleOf(h) # NoClient
  /\ ready' = poll_ready
  /\ last' = [op |-> "poll_ready", slot |-> 0, at |-> "-",
              inFlight |-> InFlight]
  /\ UNCHANGED <<client, dispatchVars, streamVars, clone, flights>>

(* Variant: call moves the configuration out of the handle. *)
CallOnTaking(h, i, r) ==
  /\ HandleOf(h) # NoClient
  /\ flights[i].pc = "idle"
  /\ flights' = [flights EXCEPT ![i] =
                   [IdleFlight EXCEPT !.pc = "start", !.self = HandleOf(h),
                                      !.called = HandleOf(h), !.rpc = r]]
  /\ IF h = "original"
       THEN client' = Client_new("") /\ UNCHANGED clone
       ELSE clone' = Client_new("") /\ UNCHANGED client
  /\ UNCHANGED <<dispatchVars, streamVars, ready, last>>

CallOn(h, i, r) ==
  /\ HandleOf(h) # NoClient
  /\ flights[i].pc = "idle"
  /\ flights' = [flights EXCEPT ![i] =
                   [IdleFlight EXCEPT !.pc = "start", !.self = HandleOf(h),
                                      !.called = HandleOf(h), !.rpc = r]]
  /\ UNCHANGED <<client, dispatchVars, streamVars, ready, clone, last>>

Suspended(i) == flights[i].pc \in {"body", "fetch"}

DropOf(i) ==
  /\ flights[i].pc # "idle"
  /\ flights' = [flights EXCEPT ![i] = IdleFlight]
  /\ last' = IF Suspended(i)
               THEN [op |-> "drop", slot |-> i, at |-> flights[i].pc,
                     inFlight |-> 0]
               ELSE last
  /\ UNCHANGED <<client, dispatchVars, streamVars, ready, clone>>

StartOf(i, newOk) ==
  /\ flights[i].pc = "start"
  /\ LET f == flights[i]
         h == OutboundHeaders(newOk, f.rpc.headers, f.self.encoding) IN
     flights' = [flights EXCEPT ![i] =
                   IF h.ok
                     THEN [f EXCEPT !.pc = "body",
                                    !.uri = TargetUri(f.self.base_uri, f.rpc.uri),
                                    !.headers = h.val]
                     ELSE Finished(h)]
  /\ UNCHANGED <<client, dispatchVars, streamVars, ready, clone, last>>

BodyFailedOf(i) ==
  /\ flights[i].pc = "body"
  /\ flights' = [flights EXCEPT ![i] =
                   Finished(RErr(Other("Failed to convert RPC body to bytes")))]
  /\ UNCHANGED <<client, dispatchVars, streamVars, ready, clone, last>>

RequestFailedOf(i, e) ==
  /\ flights[i].pc = "body"
  /\ flights' = [flights EXCEPT ![i] = Finished(RErr(From_JsValue(e)))]
  /\ UNCHANGED <<client, dispatchVars, streamVars, ready, clone, last>>

IssueFetchOf(i, bytes) ==
  /\ flights[i].pc = "body"
  /\ LET f == flights[i] IN
     flights' = [flights EXCEPT ![i] =
                   [f EXCEPT !.pc = "fetch",
                             !.self = NoClient,
                             !.hostReq = Request_new(f.uri,
                                           BuildInit(f.self, bytes, f.headers))]]
  /\ UNCHANGED <<client, dispatchVars, streamVars, ready, clone, last>>

FetchSettlesOf(i, res) ==
  /\ flights[i].pc = "fetch"
  /\ LET f == fetch_with_request(res)
         out == IF f.ok THEN BuildResponse(f.val) ELSE f IN
     flights' = [flights EXCEPT ![i] = Finished(out)]
  /\ UNCHANGED <<client, dispatchVars, streamVars, ready, clone, last>>

CoreStep ==
  \/ \E h \in HandleIds : PollReadyOn(h)
  \/ \E h \in HandleIds, i \in FlightIds, p \in RpcPaths :
       CallOn(h, i, [headers |-> <<>>, uri |-> p])
  \/ \E i \in FlightIds : DropOf(i)
  \/ \E i \in FlightIds, newOk \in BOOLEAN : StartOf(i, newOk)
  \/ \E i \in FlightIds : BodyFailedOf(i)
  \/ \E i \in FlightIds : RequestFailedOf(i, "TypeError: Failed to fetch")
  \/ \E i \in FlightIds, bytes \in SharedBodies : IssueFetchOf(i, bytes)
  \/ \E i \in FlightIds, res \in SharedFetchResults : FetchSettlesOf(i, res)

NextShared ==
  \/ CloneHandle
  \/ \E h \in HandleIds, c \in SharedConfigs : ReplaceHandle(h, c)
  \/ \E h \in HandleIds : PollReadyOn(h)
  \/ \E h \in HandleIds, i \in FlightIds, p \in RpcPaths :
       CallOn(h, i, [headers |-> <<>>, uri |-> p])
  \/ \E i \in FlightIds : DropOf(i)
  \/ \E i \in FlightIds, newOk \in BOOLEAN : StartOf(i, newOk)
  \/ \E i \in FlightIds : BodyFailedOf(i)
  \/ \E i \in FlightIds : RequestFailedOf(i, "TypeError: Failed to fetch")
  \/ \E i \in FlightIds, bytes \in SharedBodies : IssueFetchOf(i, bytes)
  \/ \E i \in FlightIds, res \in SharedFetchResults : FetchSettlesOf(i, res)

InitShared == Init /\ client = Client_new("https://api.example.com")

SpecShared == InitShared /\ [][NextShared]_vars


(***************************************************************************)
(* Properties.                                                              *)
(***************************************************************************)
Mandated == {"x-user-agent", "content-type"}

HasObs(v) == \E i \in 1..Len(v) : v[i] \in ObsTokens

ErrIs(e) == outcome.tag = "Err" /\ outcome.err = e

Resp == hostLog.fetch.resp

Responded == pc = "done" /\ hostLog.fetch.kind = "response"

(* An entry of the host's header iteration that copies without failure. *)
WellFormed(kv) ==
  /\ ~kv.throws
  /\ kv.name.js = "string" /\ kv.name.str \notin {"", "bad name"}
  /\ kv.value.js = "string" /\ ~HasObs(kv.value.str)

MissingField(kv) ==
  ~kv.throws /\ (kv.name.js = "undefined" \/ kv.value.js = "undefined")

(* C1: whenever a dispatch has reached the host fetch, the headers of the   *)
(* host request hold x-user-agent = grpc-web-rust/0.1 and content-type =    *)
(* the content type of the configured encoding, whatever the caller's       *)
(* headers were; a differing caller value for either name is not there.     *)
C1_MandatedHeadersWin ==
  pc = "fetch" =>
    LET h == hostReq.init.headers
        ct == to_content_type(client.encoding) IN
    /\ Mandated \subseteq DOMAIN h
    /\ h["x-user-agent"] = <<"grpc-web-rust/0.1">>
    /\ h["content-type"] = ct
    /\ \A kv \in callerHeaders :
         /\ kv[1] = "x-user-agent" /\ kv[2] # <<"grpc-web-rust/0.1">>
              => h["x-user-agent"] # kv[2]
         /\ kv[1] = "content-type" /\ kv[2] # ct => h["content-type"] # kv[2]

C1_Witness ==
  /\ pc = "fetch"
  /\ client.encoding = "Base64"
  /\ \E kv \in callerHeaders : kv[1] = "x-user-agent" /\ kv[2] = <<"trailers">>
  /\ \E kv \in callerHeaders : kv[1] = "content-type" /\ kv[2] = <<"trailers">>

(* C2: a dispatch has no result before it ends and ends in Ok or Err; it is *)
(* Ok exactly when every step succeeded, and then the response is complete: *)
(* the host's status, one validated header per host header pair, and the    *)
(* body stream attached.                                                    *)
AllStepsSucceeded ==
  /\ hostLog.headersNew = "ok"
  /\ hostLog.body = "ok"
  /\ hostLog.requestNew = "ok"
  /\ hostLog.fetch.kind = "response"
  /\ Resp.status \in 100..999
  /\ Resp.iter = "ok"
  /\ \A i \in 1..Len(Resp.headers) : WellFormed(Resp.headers[i])
  /\ Resp.hasBody

CompleteResponse(r) ==
  /\ r.status = Resp.status
  /\ Len(r.headers) = Len(Resp.headers)
  /\ \A i \in 1..Len(r.headers) :
       /\ r.headers[i][1] =
            (IF Resp.headers[i].name.str = "Content-Type" THEN "content-type"
             ELSE Resp.headers[i].name.str)
       /\ r.headers[i][2] = Resp.headers[i].value.str
  /\ r.body = "ReadableStreamBody"
  /\ reader # "none"

C2_OkOrErr ==
  /\ pc # "done" => outcome.tag = "None"
  /\ pc = "done" =>
       /\ outcome.tag \in {"Ok", "Err"}
       /\ outcome.tag = "Ok" <=> AllStepsSucceeded
       /\ outcome.tag = "Ok" => CompleteResponse(outcome.resp)
       /\ outcome.tag = "Err" => reader = "none"
  /\ pc \in {"body", "fetch"} => \A kv \in callerHeaders : ~HasObs(kv[2])
  /\ pc = "done" /\ (\E i \in 1..Len(rpc.headers) : HasObs(rpc.headers[i][2]))
       => outcome.tag = "Err"

C2_Witness ==
  /\ pc = "done" /\ outcome.tag = "Ok"
  /\ Len(outcome.resp.headers) = 2
  /\ outcome.resp.headers[1][1] # outcome.resp.headers[2][1]

(* C3: for a host stream that delivered N chunks and then closed, the items *)
(* poll_data has returned are the N chunks, byte for byte and in order,     *)
(* then end-of-stream on every further pull; once the closing read has been *)
(* taken up all N chunks and the end have been returned; poll_trailers has  *)
(* only ever returned Ok(None).                                             *)
C3_ChunksThenEnd ==
  /\ hostEnd = "closed" =>
       /\ \A i \in 1..Len(yielded) :
            IF i <= Len(delivered)
              THEN /\ yielded[i].tag = "Ok"
                   /\ yielded[i].bytes = delivered[i]
              ELSE yielded[i].tag = "None"
       /\ fut = "none" => Len(yielded) >= Len(delivered) + 1
  /\ trailers \in {"-", "Ready(Ok(None))"}

C3_Witness ==
  /\ hostEnd = "closed"
  /\ Len(delivered) >= 2 /\ delivered[1] # delivered[2]
  /\ Len(yielded) >= Len(delivered) + 2
  /\ trailers = "Ready(Ok(None))"

(* C4: for a host stream that delivered K chunks and then failed, the items *)
(* poll_data has returned are the K chunks, then one Err with               *)
(* Status::unknown("readablestream error") whatever the host's error was,   *)
(* and no chunk or error after it.                                          *)
C4_ChunksThenOneError ==
  hostEnd = "errored" =>
    /\ \A i \in 1..Len(yielded) :
         IF i <= Len(delivered)
           THEN /\ yielded[i].tag = "Ok"
                /\ yielded[i].bytes = delivered[i]
         ELSE IF i = Len(delivered) + 1
           THEN /\ yielded[i].tag = "Err"
                /\ yielded[i].status =
                     [code |-> "Unknown", message |-> "readablestream error"]
         ELSE yielded[i].tag = "None"
    /\ fut = "none" => Len(yielded) >= Len(delivered) + 1

C4_Witness ==
  /\ hostEnd = "errored" /\ hostErr = "AbortError"
  /\ Len(delivered) >= 1
  /\ Len(yielded) >= Len(delivered) + 2

(* C5: in the items one body has returned, no Ok chunk comes after an       *)
(* end-of-stream or an Err.                                                 *)
C5_NoRevival ==
  \A i \in 1..Len(yielded) : \A j \in 1..Len(yielded) :
    i < j /\ yielded[i].tag # "Ok" => yielded[j].tag # "Ok"

C5_Witness ==
  /\ Len(yielded) >= 3
  /\ yielded[Len(yielded) - 2].tag = "Err"
  /\ Len(delivered) >= 1

(* C6 as stated: a request with a header value holding non-ASCII bytes      *)
(* always ends in Other("Header value contained invalid ASCII") with no     *)
(* host fetch.                                                              *)
RpcHasObs == \E i \in 1..Len(rpc.headers) : HasObs(rpc.headers[i][2])

C6_AsStated ==
  pc = "done" /\ RpcHasObs =>
    /\ ErrIs(Other("Header value contained invalid ASCII"))
    /\ fetchCount = 0

(* The headers copied before the first one whose value holds non-ASCII      *)
(* bytes were all taken by the host.                                        *)
CopiedUpToObs ==
  \A i \in 1..Len(rpc.headers) :
    (\A j \in 1..i : ~HasObs(rpc.headers[j][2])) => IsToken(rpc.headers[i][1])

(* C6, amended: a request with a header value holding non-ASCII bytes never *)
(* gets past header construction, so no host fetch is issued for it, and    *)
(* its dispatch ends in a ClientError: Other("Header value contained        *)
(* invalid ASCII") whenever the host header container was created and the   *)
(* headers before the offending one were copied, Other("Failed to create    *)
(* headers") when the container was not created.                            *)
C6_NonAsciiValueFails ==
  /\ (\E kv \in callerHeaders : HasObs(kv[2])) =>
       /\ pc \in {"start", "done"}
       /\ fetchCount = 0
       /\ hostLog.fetch.kind = "-"
  /\ pc = "done" /\ RpcHasObs =>
       /\ outcome.tag = "Err"
       /\ hostLog.headersNew = "ok" /\ CopiedUpToObs
            => outcome.err = Other("Header value contained invalid ASCII")
       /\ hostLog.headersNew = "throw"
            => outcome.err = Other("Failed to create headers")

C6_Witness ==
  /\ pc = "done" /\ RpcHasObs
  /\ Len(rpc.headers) = 2 /\ ~HasObs(rpc.headers[1][2])
  /\ ErrIs(Other("Header value contained invalid ASCII"))

(* C7 as stated: a host response with an empty or missing body, its        *)
(* headers being in order, always ends the dispatch in                      *)
(* Other("Response body was empty").                                        *)
HeadersInOrder ==
  /\ Resp.iter = "ok"
  /\ \A i \in 1..Len(Resp.headers) : WellFormed(Resp.headers[i])

C7_AsStated ==
  /\ Responded /\ HeadersInOrder /\ ~Resp.hasBody
       => ErrIs(Other("Response body was empty"))
  /\ Responded /\ HeadersInOrder /\ Resp.hasBody
       /\ hostEnd = "closed" /\ delivered = <<>>
       => ErrIs(Other("Response body was empty"))

(* C7, amended: a host response without a body stream never yields an Ok    *)
(* response; its dispatch ends in a ClientError, which is                   *)
(* Other("Response body was empty") whenever the status is a valid status   *)
(* code and every response header copied.                                   *)
C7_MissingBodyFails ==
  Responded /\ ~Resp.hasBody =>
    /\ outcome.tag = "Err"
    /\ reader = "none"
    /\ Resp.status \in 100..999 /\ HeadersInOrder
         => outcome.err = Other("Response body was empty")

C7_Witness ==
  /\ Responded /\ ~Resp.hasBody
  /\ Len(Resp.headers) = 2
  /\ ErrIs(Other("Response body was empty"))

(* C8 as stated: when the header iteration of a host response with a valid *)
(* status yields an entry with a missing name or value (the entries before  *)
(* it having copied), the dispatch ends in the Other that names the missing *)
(* field, and an Ok response has one header per host pair.                  *)
HasMissingField == \E i \in 1..Len(Resp.headers) : MissingField(Resp.headers[i])

FirstBad ==
  CHOOSE i \in 1..Len(Resp.headers) :
    /\ ~WellFormed(Resp.headers[i])
    /\ \A j \in 1..(i - 1) : WellFormed(Resp.headers[j])

C8_AsStated ==
  /\ (/\ Responded /\ Resp.status \in 100..999 /\ Resp.iter = "ok"
      /\ HasMissingField /\ MissingField(Resp.headers[FirstBad]))
     => IF Resp.headers[FirstBad].name.js = "undefined"
          THEN ErrIs(Other("Header pair had no name"))
          ELSE ErrIs(Other("Header pair had no value"))
  /\ Responded /\ outcome.tag = "Ok"
       => Len(outcome.resp.headers) = Len(Resp.headers)

(* C8, amended: a host response holding an entry with a missing name or     *)
(* value never yields an Ok response, and every Ok response has one header  *)
(* per host pair.  When the status is valid and that entry is the first one *)
(* that fails to copy, the error is Other("Header pair had no name") for a  *)
(* missing name, and Other("Header pair had no value") for a missing value  *)
(* beside a valid name; a name that is present but invalid is reported as   *)
(* Other("Header name was invalid") even when the value is missing.         *)
C8_MissingFieldFails ==
  /\ Responded /\ HasMissingField =>
       /\ outcome.tag = "Err"
       /\ Resp.status \in 100..999 /\ MissingField(Resp.headers[FirstBad]) =>
            LET kv == Resp.headers[FirstBad] IN
            /\ kv.name.js = "undefined"
                 => outcome.err = Other("Header pair had no name")
            /\ kv.name.js = "string" /\ kv.name.str # "bad name"
                 => outcome.err = Other("Header pair had no value")
            /\ kv.name.js = "string" /\ kv.name.str = "bad name"
                 => outcome.err = Other("Header name was invalid")
  /\ Responded /\ outcome.tag = "Ok"
       => /\ Len(outcome.resp.headers) = Len(Resp.headers)
          /\ \A i \in 1..Len(Resp.headers) : ~MissingField(Resp.headers[i])

C8_Witness ==
  /\ Responded /\ Resp.status = 200
  /\ Len(Resp.headers) = 2
  /\ WellFormed(Resp.headers[1])
  /\ Resp.headers[2].name.js = "string" /\ Resp.headers[2].value.js = "undefined"
  /\ ErrIs(Other("Header pair had no value"))

(* C9: the host fetch is issued with method POST and with the credentials   *)
(* and mode of the Client's configuration in the request init.              *)
C9_InitHonoursConfig ==
  pc = "fetch" =>
    /\ hostReq.init.method = "POST"
    /\ hostReq.init.credentials = client.credentials
    /\ hostReq.init.mode = client.mode

(* C10: when the host fetch rejects, the dispatch ends in FetchFailed       *)
(* carrying the very value the host rejected with.                          *)
C10_RejectionIsFetchFailed ==
  pc = "done" /\ hostLog.fetch.kind = "reject" =>
    /\ outcome.tag = "Err"
    /\ outcome.err.tag = "FetchFailed"
    /\ outcome.err.val = hostLog.fetch.val

C10_Witness ==
  /\ pc = "done" /\ hostLog.fetch.kind = "reject"
  /\ hostLog.fetch.val = "AbortError"
  /\ outcome.tag = "Err"

(* C14: once the outbound headers are constructed, every (name, value) pair *)
(* of the caller's header mapping is in the host header container, the name *)
(* as the caller gave it and the value exactly the caller's.                *)
C14_PairsPreserved ==
  pc \in {"body", "fetch"} =>
    \A kv \in callerHeaders :
      /\ kv[1] \in DOMAIN headers
      /\ headers[kv[1]] = kv[2]

(* C16: the steps of a dispatch happen in one order.  Nothing of the host   *)
(* is touched before the first poll; the outbound headers are complete      *)
(* before the body is materialised, the body before the host request is     *)
(* made and the fetch issued; of a host response the status is taken        *)
(* first, then the headers, then the body stream, so that a failing step    *)
(* hides every failure of a later one.                                      *)
C16_StepsInOrder ==
  /\ pc \in {"idle", "start"} => hostLog = NoHostLog /\ fetchCount = 0
  /\ pc \in {"body", "fetch"} =>
       /\ hostLog.headersNew = "ok"
       /\ Mandated \subseteq DOMAIN headers
       /\ \A kv \in callerHeaders : kv[1] \in DOMAIN headers
  /\ pc = "body" =>
       hostLog.body = "-" /\ hostLog.requestNew = "-" /\ fetchCount = 0
  /\ hostLog.body # "-" => hostLog.headersNew = "ok"
  /\ hostLog.requestNew # "-" => hostLog.body = "ok"
  /\ fetchCount > 0 => hostLog.requestNew = "ok"
  /\ hostLog.fetch.kind # "-" => pc = "done" /\ fetchCount = 1
  /\ Responded =>
       /\ ~ValidStatus(Resp.status)
            => ErrIs(Other("Could not get response headers"))
       /\ ValidStatus(Resp.status) /\ ~HeadersInOrder
            => /\ outcome.tag = "Err"
               /\ outcome.err # Other("Response body was empty")
               /\ outcome.err # Other("Could not get response headers")
       /\ ErrIs(Other("Response body was empty"))
            => ValidStatus(Resp.status) /\ HeadersInOrder /\ ~Resp.hasBody
       /\ outcome.tag = "Ok"
            => ValidStatus(Resp.status) /\ HeadersInOrder /\ Resp.hasBody

C16_Witness ==
  /\ Responded /\ Resp.status = 200 /\ ~Resp.hasBody
  /\ Len(Resp.headers) = 2
  /\ WellFormed(Resp.headers[1])
  /\ Resp.headers[2].name.js = "undefined"
  /\ ErrIs(Other("Header pair had no name"))

(* C17: a dispatch that fails while its outbound headers are constructed    *)
(* (before the body is touched) ends in a ClientError::Other, with no host  *)
(* fetch issued.                                                            *)
C17_HeaderFailuresAreOther ==
  pc = "done" /\ hostLog.body = "-" =>
    /\ outcome.tag = "Err"
    /\ outcome.err.tag = "Other"
    /\ fetchCount = 0

(* C18: a dispatch issues the host fetch at most once: exactly once when it *)
(* reached the fetch, whatever came of it, and never otherwise.             *)
C18_AtMostOneFetch ==
  /\ fetchCount <= 1
  /\ pc = "fetch" => fetchCount = 1
  /\ pc = "done" =>
       fetchCount = (IF hostLog.fetch.kind = "-" THEN 0 ELSE 1)

C18_Witness ==
  /\ Responded /\ fetchCount = 1
  /\ Resp.status = 200 /\ ~HeadersInOrder
  /\ outcome.tag = "Err"

(* C20: a host response whose status number is no valid status code ends    *)
(* the dispatch in Other("Could not get response headers"), whatever its    *)
(* headers and body are, and no body stream is taken; an Ok response has a  *)
(* valid status code, the host's.                                           *)
C20_InvalidStatusFails ==
  /\ Responded /\ Resp.status \notin 100..999 =>
       /\ ErrIs(Other("Could not get response headers"))
       /\ reader = "none"
  /\ pc = "done" /\ outcome.tag = "Ok" =>
       /\ Resp.status \in 100..999
       /\ outcome.resp.status = Resp.status

C20_Witness ==
  /\ Responded /\ Resp.status = 0
  /\ Resp.iter = "ok" /\ Len(Resp.headers) = 2
  /\ \E i \in 1..2 : Resp.headers[i].throws
  /\ Resp.hasBody
  /\ ErrIs(Other("Could not get response headers"))

(* C19: is_end_stream has answered false whenever it was asked: before the  *)
(* first pull, between chunks, and after poll_data returned the end of the  *)
(* stream or an error.                                                      *)
C19_NeverEndStream == endStream.asked => endStream.val = FALSE

C19_Witness ==
  /\ endStream.asked /\ endStream.ended
  /\ reader = "released" /\ hostEnd = "closed"
  /\ Len(delivered) >= 1

(* C11: of every dispatch in flight, whatever the other dispatches did and  *)
(* whatever became of the handles since, the target address, the content    *)
(* type and the fetch options (credentials, mode) of the host request are   *)
(* those of the configuration the dispatch was called with.                 *)
C11_SnapshotDecidesRequest ==
  \A i \in FlightIds :
    flights[i].pc = "fetch" =>
      LET f == flights[i] IN
      /\ f.hostReq.url = f.called.base_uri \o f.rpc.uri
      /\ f.hostReq.init.headers["content-type"] =
           to_content_type(f.called.encoding)
      /\ f.hostReq.init.credentials = f.called.credentials
      /\ f.hostReq.init.mode = f.called.mode

(* C12: no operation of the adapter changes the configuration of a handle:  *)
(* across poll_ready, call, every step of a dispatch and the dropping of a  *)
(* future both handles keep their value, and a call hands the future the    *)
(* configuration the handle has.                                            *)
C12_HandlesUnchanged ==
  [][CoreStep =>
       /\ client' = client
       /\ clone' = clone
       /\ \A i \in FlightIds :
            flights[i].pc = "idle" /\ flights'[i].pc = "start"
              => /\ flights'[i].self \in {client, clone}
                 /\ flights'[i].self # NoClient]_vars

C12_Witness ==
  /\ last.op = "drop" /\ last.at = "fetch"
  /\ flights[last.slot].pc = "start"
  /\ flights[last.slot].self = client
  /\ client = Client_new("https://api.example.com")
  /\ \E j \in FlightIds : flights[j].pc = "done" /\ flights[j].outcome.tag = "Err"

(* C13: every poll_ready has returned Ready(Ok(())), with no dispatch, one  *)
(* or several in flight, and after dispatches failed or were dropped.       *)
C13_AlwaysReady ==
  /\ ready \in {"-", "Ready(Ok(()))"}
  /\ last.op = "poll_ready" => ready = "Ready(Ok(()))"

C13_Witness ==
  /\ last.op = "poll_ready" /\ last.inFlight = 2
  /\ ready = "Ready(Ok(()))"
  /\ flights[1].pc = "fetch" /\ flights[2].pc = "body"

(* C15: the target address of a dispatch, and the address of its host       *)
(* request, is the base address of the configuration it was called with     *)
(* followed by the request's path, character for character.                 *)
C15_TargetIsConcatenation ==
  \A i \in FlightIds :
    LET f == flights[i] IN
    /\ f.pc \in {"body", "fetch"} => f.uri = f.called.base_uri \o f.rpc.uri
    /\ f.pc = "fetch" =>
         /\ f.hostReq.url = f.called.base_uri \o f.rpc.uri
         /\ f.called.base_uri = "https://api.example.com"
              /\ f.rpc.uri = "/pkg.Service/Method"
              => f.hostReq.url = "https://api.example.com/pkg.Service/Method"
         /\ f.called.base_uri = "https://b.example.org/"
              /\ f.rpc.uri = "/pkg.Service/Method"
              => f.hostReq.url = "https://b.example.org//pkg.Service/Method"

C15_Witness ==
  /\ flights[1].pc = "fetch"
  /\ flights[1].hostReq.url = "https://b.example.org//pkg.Service/Method"
  /\ flights[2].pc = "fetch"
  /\ flights[2].hostReq.url = "https://api.example.com/pkg.Service/Method"
  /\ client = OtherConfig

=============================================================================
